---- MODULE Spec2Model ----
(***************************************************************************)
(* Model of the Sortable controller (src/ui/Sortable.ts): a drag gesture   *)
(* state machine that wires pointer events to one SortableInteraction,     *)
(* finalizes it asynchronously and publishes start / end / changed.        *)
(*                                                                         *)
(* Every handler of the class is an operator from a controller state       *)
(* record to a controller state record, so that nested calls               *)
(* (init -> destroy -> onDragEnd) compose as they do in the code.  One     *)
(* action per entry point of the event loop: the two public methods, the   *)
(* five DOM events the class listens to and the resolution of a pending    *)
(* finalize promise.                                                       *)
(***************************************************************************)
EXTENDS Integers, Sequences, FiniteSets, Bags, TLC

VARIABLES
    interaction,      \* this.interaction: Null or the id of the Interaction held
    delegateHandler,  \* this.delegateHandler: Null or the token of the delegate
    mousedown,        \* delegated mousedown listeners installed on the container
    wide,             \* listeners attached on document.body / window
    order,            \* the container's items, in DOM order
    inter,            \* the SortableInteraction objects that are still alive
    pending,          \* bag of the finalize promises not yet resolved
    hist,             \* per gesture: how often each notification was emitted
    notes,            \* the notifications of the most recent run, with payloads
    task,             \* the event or call the event loop ran most recently
    trace,            \* the steps of that run, in code order
    created,          \* number of SortableInteraction objects constructed
    error             \* an exception escaped a handler

vars == <<interaction, delegateHandler, mousedown, wide, order, inter,
          pending, hist, notes, task, trace, created, error>>

\* everything but the record of the last run
ctrl == <<interaction, delegateHandler, mousedown, wide, order, inter,
          pending, hist, created, error>>

-----------------------------------------------------------------------------
(* Bounds *)

NItems == 2
MaxGestures == 2
MaxPending == 2

Null == 0

Items == 1..NItems
\* every item has one child node, the element a handle selector would match
Handles == (NItems + 1)..(2 * NItems)
Nodes == Items \cup Handles
Slots == 0..(NItems - 1)
Gestures == 1..MaxGestures
Tokens == 1..2

WideListeners == {"mousemove", "mouseup", "mouseout", "scroll"}

-----------------------------------------------------------------------------
(* DOM helpers *)

matches(n) == n \in Items

closest(n) == IF n \in Items THEN n ELSE n - NItems

find(s) == s

Without(s, x) == SelectSeq(s, LAMBDA e : e # x)

IndexOf(s, x) == CHOOSE i \in 1..Len(s) : s[i] = x

InsertAt(s, i, x) == SubSeq(s, 1, i) \o <<x>> \o SubSeq(s, i + 1, Len(s))

nextSibling(s, x) ==
    IF IndexOf(s, x) = Len(s) THEN Null ELSE s[IndexOf(s, x) + 1]

insertBefore(s, x, b) ==
    IF b = Null THEN Append(Without(s, x), x)
    ELSE InsertAt(Without(s, x), IndexOf(Without(s, x), b) - 1, x)

-----------------------------------------------------------------------------
(* mitt: emit(type, evt) hands evt, as it is, to every subscriber *)

Node(n) == [tag |-> "node", node |-> n]
ArrayOf(v) == [tag |-> "array", elems |-> <<v>>]
NoPayload == [tag |-> "none"]

-----------------------------------------------------------------------------
(* Events, as far as the handlers read them *)

HtmlNode == 2 * NItems + 1

Undefined == [type |-> "undefined", target |-> Null, y |-> 0, relatedTarget |-> Null]

MouseEvent(type, target, y, related) ==
    [type |-> type, target |-> target, y |-> y, relatedTarget |-> related]

-----------------------------------------------------------------------------
(* The controller state as one record, and bookkeeping on it *)

State ==
    [interaction |-> interaction, delegateHandler |-> delegateHandler,
     mousedown |-> mousedown, wide |-> wide, order |-> order, inter |-> inter,
     pending |-> pending, hist |-> hist, notes |-> notes, task |-> task,
     trace |-> trace,
     created |-> created, error |-> error]

Step(S, name) == [S EXCEPT !.trace = Append(@, name)]

\* order0, moved and by record, for the properties, the item order at pickup,
\* whether a placement moved the item, and what triggered each finalize call
NoInteraction ==
    [made |-> FALSE, item |-> Null, before0 |-> Null, before |-> Null,
     dragging |-> FALSE, calls |-> <<>>, order0 |-> <<>>, moved |-> FALSE,
     by |-> <<>>]

NoHistory ==
    [starts |-> 0, ends |-> 0, changed |-> 0, late |-> FALSE, destroyed |-> FALSE]

-----------------------------------------------------------------------------
(* dom/events: on, off, delegate *)

on(S, type) == Step([S EXCEPT !.wide = @ \cup {type}], "on")

off(S, type) == Step([S EXCEPT !.wide = @ \ {type}], "off")

delegate(S) ==
    LET token == CHOOSE t \in Tokens : t \notin S.mousedown
    IN  Step([S EXCEPT !.mousedown = @ \cup {token}, !.delegateHandler = token],
             "delegate")

offDelegate(S) ==
    Step([S EXCEPT !.mousedown = @ \ {S.delegateHandler}], "off:mousedown")

-----------------------------------------------------------------------------
(* mitt emitter: the subscribers are called with the payload, and find the  *)
(* controller holding S.interaction with the listeners S.wide attached; the *)
(* emission is counted for the gesture g it is about                        *)

Note(S, type, payload) ==
    [type |-> type, payload |-> payload, held |-> S.interaction, wide |-> S.wide]

emit(S, type, payload, g) ==
    LET S0 == [S EXCEPT !.notes = Append(@, Note(S, type, payload))]
    IN  Step(CASE type = "start"   -> [S0 EXCEPT !.hist[g].starts = @ + 1]
               [] type = "end"     -> [S0 EXCEPT !.hist[g].ends = @ + 1]
               [] type = "changed" -> [S0 EXCEPT !.hist[g].changed = @ + 1],
             "emit:" \o type)

-----------------------------------------------------------------------------
(* SortableInteraction: one drag gesture *)

SortableInteraction(draggedItem) ==
    [NoInteraction EXCEPT !.made = TRUE, !.item = draggedItem]

SI_start(S, g) ==
    LET a == nextSibling(S.order, S.inter[g].item)
    IN  Step([S EXCEPT !.inter[g].before0 = a, !.inter[g].before = a,
                       !.inter[g].dragging = TRUE,
                       !.inter[g].order0 = S.order], "start()")

\* the pointer at y overlaps the y-th gap between the other items
Place(S, g, y) ==
    LET it == S.inter[g].item
        others == Without(S.order, it)
        a == IF y >= Len(others) THEN Null ELSE others[y + 1]
    IN  IF a = S.inter[g].before THEN S
        ELSE [S EXCEPT !.order = insertBefore(S.order, it, a),
                       !.inter[g].before = a, !.inter[g].moved = TRUE]

SI_onMove(S, g, y) == Step(Place(S, g, y), "onMove")

SI_onScroll(S, g, y) == Step(Place(S, g, y), "onScroll")

SI_drop(S, g, y) ==
    Step([Place(S, g, y) EXCEPT !.inter[g].dragging = FALSE,
                                !.inter[g].calls = Append(@, "drop")], "drop")

SI_abort(S, g) ==
    Step([S EXCEPT !.order = insertBefore(S.order, S.inter[g].item,
                                          S.inter[g].before0),
                   !.inter[g].before = S.inter[g].before0,
                   !.inter[g].dragging = FALSE,
                   !.inter[g].calls = Append(@, "abort")], "abort")

SI_result(S, g) == [item |-> S.inter[g].item, before |-> S.inter[g].before]

orderHasChanged(S, g) == S.inter[g].before # S.inter[g].before0

-----------------------------------------------------------------------------
(* Sortable: the handlers *)

\* variant: start is emitted before the listeners are attached
acceptPickup_EmitFirst(S0, event) ==
    LET draggedItem == IF matches(event.target) THEN event.target
                       ELSE closest(event.target)
        g  == S0.created + 1
        S1 == Step([S0 EXCEPT !.interaction = g, !.created = g,
                              !.inter[g] = SortableInteraction(draggedItem)],
                   "new")
        S2 == SI_start(S1, g)
        S3 == emit(S2, "start", ArrayOf(Node(draggedItem)), g)
        S4 == on(on(on(on(S3, "mousemove"), "mouseup"), "mouseout"), "scroll")
    IN  Step(S4, "preventDefault")

\* onInteractionStart once the pickup is accepted (Sortable.ts 101-115)
acceptPickup(S0, event) ==
    LET draggedItem == IF matches(event.target) THEN event.target
                       ELSE closest(event.target)
        g  == S0.created + 1
        S1 == Step([S0 EXCEPT !.interaction = g, !.created = g,
                              !.inter[g] = SortableInteraction(draggedItem)],
                   "new")
        S2 == SI_start(S1, g)
        S3 == on(on(on(on(S2, "mousemove"), "mouseup"), "mouseout"), "scroll")
        S4 == emit(S3, "start", ArrayOf(Node(draggedItem)), g)
    IN  Step(S4, "preventDefault")

\* variant: the re-entrancy guard is missing
onInteractionStart_NoGuard(S, event) ==
    LET S0 == Step(S, "onInteractionStart")
    IN  IF event.target = Null \/ S0.created >= MaxGestures THEN S0
        ELSE acceptPickup(S0, event)

\* Sortable.onInteractionStart (mousedown on an item or its handle)
onInteractionStart(S, event) ==
    LET S0 == Step(S, "onInteractionStart")
    IN  IF S0.interaction # Null THEN S0
        ELSE IF event.target = Null THEN S0
        ELSE acceptPickup(S0, event)

\* a move or scroll forwarded to an Interaction that was already finalized
Forwarded(S, g) == [S EXCEPT !.hist[g].late = @ \/ S.inter[g].calls # <<>>]

\* variant: the null check is missing, the call on null throws
onDragMove_NoGuard(S, event) ==
    LET S0 == Step(S, "onDragMove")
    IN  IF S0.interaction = Null THEN [S0 EXCEPT !.error = TRUE]
        ELSE SI_onMove(Forwarded(S0, S0.interaction), S0.interaction, event.y)

\* Sortable.onDragMove (mousemove on document.body)
onDragMove(S, event) ==
    LET S0 == Step(S, "onDragMove")
    IN  IF S0.interaction = Null THEN S0
        ELSE SI_onMove(Forwarded(S0, S0.interaction), S0.interaction, event.y)

\* Sortable.onScroll (scroll on window); y is what now lies under the pointer
onScroll(S, y) ==
    LET S0 == Step(S, "onScroll")
    IN  IF S0.interaction = Null THEN S0
        ELSE SI_onScroll(Forwarded(S0, S0.interaction), S0.interaction, y)

\* the four off() calls of onDragEnd (Sortable.ts 144-147)
detach(S) == off(off(off(off(S, "mousemove"), "mouseup"), "mouseout"), "scroll")

\* variant: no continuation is registered on the promise
finalize_NoThen(S, event) ==
    LET g  == S.interaction
        S2 == IF event # Undefined THEN SI_drop(S, g, event.y) ELSE SI_abort(S, g)
    IN  [S2 EXCEPT !.inter[g].by = Append(@, S.task.type)]

\* variant: abort() is called whatever ended the gesture
finalize_AlwaysAbort(S, event) ==
    LET g  == S.interaction
        S2 == SI_abort(S, g)
        endAction == [of |-> g, kind |-> "abort",
                      result |-> [item |-> Null, before |-> Null]]
    IN  Step([S2 EXCEPT !.pending = @ (+) SetToBag({endAction}),
                        !.inter[g].by = Append(@, S.task.type)], "then")

\* drop() or abort(), and the continuation registered on its promise
\* (Sortable.ts 150-155)
finalize(S, event) ==
    LET g  == S.interaction
        S2 == IF event # Undefined THEN SI_drop(S, g, event.y) ELSE SI_abort(S, g)
        endAction == IF event # Undefined
                     THEN [of |-> g, kind |-> "drop", result |-> SI_result(S2, g)]
                     ELSE [of |-> g, kind |-> "abort",
                           result |-> [item |-> Null, before |-> Null]]
    IN  Step([S2 EXCEPT !.pending = @ (+) SetToBag({endAction}),
                        !.inter[g].by = Append(@, S.task.type)], "then")

\* variant: the Interaction is finalized before the listeners are removed
onDragEnd_FinalizeFirst(S, event) ==
    LET S0 == Step(S, "onDragEnd")
    IN  IF S0.interaction = Null THEN S0
        ELSE LET S1 == finalize(S0, event)
                 n  == Len(S1.trace)
                 S2 == detach([S1 EXCEPT !.trace = SubSeq(@, 1, n - 1)])
             IN  Step(S2, "then")

\* variant: the null check is missing, abort() on null throws
onDragEnd_NoGuard(S, event) ==
    LET S0 == Step(S, "onDragEnd")
    IN  IF S0.interaction = Null THEN [detach(S0) EXCEPT !.error = TRUE]
        ELSE finalize(detach(S0), event)

\* Sortable.onDragEnd, up to the registration of the continuation
onDragEnd(S, event) ==
    LET S0 == Step(S, "onDragEnd")
    IN  IF S0.interaction = Null THEN S0
        ELSE finalize(detach(S0), event)

\* variant: end is emitted before the reference is cleared
finish_EmitFirst(S0, g, promise, emitChanged) ==
    LET currentItems == find(S0.order)
        S1 == Step(S0, "orderHasChanged")
        S2 == emit(S1, "end", NoPayload, g)
        S3 == Step([S2 EXCEPT !.interaction = Null, !.inter[g] = NoInteraction],
                   "clear")
    IN  IF emitChanged
        THEN emit(S3, "changed",
                  [tag |-> "changed", items |-> currentItems,
                   result |-> promise.result], g)
        ELSE S3

\* the continuation from the point where the Interaction g is known
\* (Sortable.ts 166-177); the object dies with the last reference to it
finish(S0, g, promise, emitChanged) ==
    LET currentItems == find(S0.order)
        S1 == Step(S0, "orderHasChanged")
        S2 == Step([S1 EXCEPT !.interaction = Null, !.inter[g] = NoInteraction],
                   "clear")
        S3 == emit(S2, "end", NoPayload, g)
    IN  IF emitChanged
        THEN emit(S3, "changed",
                  [tag |-> "changed", items |-> currentItems,
                   result |-> promise.result], g)
        ELSE S3

\* variant: the continuation works on the Interaction its promise came from
endActionThen_Captured(S, promise) ==
    LET S0 == Step(Step(S, "endActionThen"), "find")
        g  == promise.of
    IN  finish(S0, g, promise, orderHasChanged(S0, g))

\* variant: changed is emitted whatever orderHasChanged() says
endActionThen_AlwaysChanged(S, promise) ==
    LET S0 == Step(Step(S, "endActionThen"), "find")
        g  == S0.interaction
    IN  IF g = Null THEN S0
        ELSE finish(S0, g, promise, TRUE)

\* the continuation of onDragEnd: endAction.then(result => ...)
endActionThen(S, promise) ==
    LET S0 == Step(Step(S, "endActionThen"), "find")
        g  == S0.interaction
    IN  IF g = Null THEN S0
        ELSE finish(S0, g, promise, orderHasChanged(S0, g))

\* variant: the mouseout event is passed on, so the gesture is dropped
onMouseOut_Drop(S, event) ==
    LET S0 == Step(S, "onMouseOut")
    IN  IF event.relatedTarget = HtmlNode THEN onDragEnd(S0, event) ELSE S0

\* Sortable.onMouseOut (mouseout on window)
onMouseOut(S, event) ==
    LET S0 == Step(S, "onMouseOut")
        html == HtmlNode
    IN  IF event.relatedTarget = html THEN onDragEnd(S0, Undefined) ELSE S0

\* destroy() was called while the Interaction g was held
Destroyed(S) ==
    IF S.interaction # Null THEN [S EXCEPT !.hist[S.interaction].destroyed = TRUE]
    ELSE S

\* the removal of the delegated listener (Sortable.ts 225-229)
removeDelegate(S0) ==
    IF S0.delegateHandler # Null
    THEN [offDelegate(S0) EXCEPT !.delegateHandler = Null]
    ELSE S0

\* variant: the active gesture is not ended
destroy_NoEnd(S) == removeDelegate(Step(Destroyed(S), "destroy"))

\* Sortable.destroy
destroy(S) == removeDelegate(onDragEnd(Step(Destroyed(S), "destroy"), Undefined))

\* variant: a previous installation is not torn down
init_NoTeardown(S) ==
    LET S0 == Step(S, "init")
    IN  IF Tokens \subseteq S0.mousedown THEN S0 ELSE delegate(S0)

\* Sortable.init
init(S) ==
    LET S0 == Step(S, "init")
        S1 == IF S0.delegateHandler # Null THEN destroy(S0) ELSE S0
    IN  delegate(S1)

-----------------------------------------------------------------------------
(* The event loop: one task at a time, each run to completion *)

Run(T) ==
    /\ interaction' = T.interaction
    /\ delegateHandler' = T.delegateHandler
    /\ mousedown' = T.mousedown
    /\ wide' = T.wide
    /\ order' = T.order
    /\ inter' = T.inter
    /\ pending' = T.pending
    /\ hist' = T.hist
    /\ notes' = T.notes
    /\ task' = T.task
    /\ trace' = T.trace
    /\ created' = T.created
    /\ error' = T.error

\* the run of a new task starts; the record of it keeps the coordinates of a
\* release only
Task(event) ==
    [State EXCEPT !.task = [event EXCEPT
                               !.y = IF event.type = "mouseup" THEN @ ELSE 0],
                  !.trace = <<>>, !.notes = <<>>]

Call(name) == MouseEvent(name, Null, 0, Null)

RoomForPromise == interaction = Null \/ BagCardinality(pending) < MaxPending

Init ==
    /\ interaction = Null
    /\ delegateHandler = Null
    /\ mousedown = {}
    /\ wide = {}
    /\ order = [i \in 1..NItems |-> i]
    /\ inter = [g \in Gestures |-> NoInteraction]
    /\ pending = EmptyBag
    /\ hist = [g \in Gestures |-> NoHistory]
    /\ notes = <<>>
    /\ task = Call("constructor")
    /\ trace = <<>>
    /\ created = 0
    /\ error = FALSE

CallInit ==
    /\ delegateHandler = Null \/ RoomForPromise
    /\ Run(init(Task(Call("init"))))

CallDestroy ==
    /\ RoomForPromise
    /\ Run(destroy(Task(Call("destroy"))))

\* a mousedown inside the container reaches the delegated listener
MouseDown ==
    /\ mousedown # {}
    /\ \E target \in Nodes \cup {Null} :
          LET event == MouseEvent("mousedown", target, 0, Null)
          IN  /\ interaction # Null \/ target = Null \/ created < MaxGestures
              /\ Run(onInteractionStart(Task(event), event))

MouseMove ==
    /\ "mousemove" \in wide
    /\ \E y \in Slots :
          LET event == MouseEvent("mousemove", Null, y, Null)
          IN  Run(onDragMove(Task(event), event))

MouseUp ==
    /\ "mouseup" \in wide
    /\ RoomForPromise
    /\ \E y \in Slots :
          LET event == MouseEvent("mouseup", Null, y, Null)
          IN  Run(onDragEnd(Task(event), event))

MouseOut ==
    /\ "mouseout" \in wide
    /\ RoomForPromise
    /\ \E related \in {HtmlNode, Null} \cup Items :
          LET event == MouseEvent("mouseout", Null, 0, related)
          IN  Run(onMouseOut(Task(event), event))

Scroll ==
    /\ "scroll" \in wide
    /\ \E y \in Slots : Run(onScroll(Task(MouseEvent("scroll", Null, y, Null)), y))

\* a finalize promise resolves and its continuation runs
Resolve ==
    \E promise \in BagToSet(pending) :
        Run(endActionThen(
              [Task(Call("resolve")) EXCEPT
                  !.pending = pending (-) SetToBag({promise})],
              promise))

Next ==
    \/ CallInit
    \/ CallDestroy
    \/ MouseDown
    \/ MouseMove
    \/ MouseUp
    \/ MouseOut
    \/ Scroll
    \/ Resolve

Spec == Init /\ [][Next]_vars

\* every promise of drop() / abort() is resolved in the end ("completion always
\* succeeds"), and the event loop then runs its continuation
FairSpec == Spec /\ WF_vars(Resolve)

TypeOK ==
    /\ interaction \in Gestures \cup {Null}
    /\ delegateHandler \in Tokens \cup {Null}
    /\ mousedown \subseteq Tokens
    /\ wide \subseteq WideListeners
    /\ Len(order) = NItems
    /\ BagCardinality(pending) <= MaxPending
    /\ created \in 0..MaxGestures
    /\ error \in BOOLEAN

-----------------------------------------------------------------------------
(* Properties *)

\* number of entries of tr, among the first n, that equal name
CountBefore(tr, n, name) == Cardinality({j \in 1..n : tr[j] = name})

Has(tr, name) == \E i \in DOMAIN tr : tr[i] = name

\* every occurrence of b in tr comes after an occurrence of a
Precedes(tr, a, b) ==
    \A i \in DOMAIN tr : tr[i] = b => \E j \in 1..(i - 1) : tr[j] = a

\* C1 (part): an Interaction object that is alive is the one the controller
\* holds, so at most one exists at a time.
AtMostOneInteraction ==
    \A g \in Gestures : inter[g].made => interaction = g

\* C1: a mousedown handled while the controller holds an Interaction (also
\* between release/abort and the resolution of the finalize promise) returns
\* at once: no Interaction is created, the reference, the listeners and the
\* notifications are unchanged; and at most one Interaction exists at a time.
C1_PickupWhileDraggingIsNoOp ==
    /\ []AtMostOneInteraction
    /\ [][(task'.type = "mousedown" /\ interaction # Null)
            => (UNCHANGED ctrl /\ notes' = <<>>
                /\ trace' = <<"onInteractionStart">>)]_vars

C1_Witness ==
    /\ task.type = "mousedown"
    /\ task.target # Null
    /\ trace = <<"onInteractionStart">>
    /\ interaction # Null
    /\ \E p \in BagToSet(pending) : p.of = interaction

\* C2: every accepted pickup emits one start; a gesture has no end while its
\* Interaction is held and exactly one end once the reference is cleared,
\* whatever ended it and however many end triggers were invoked on it.
C2_ExactlyOneEnd ==
    \A g \in Gestures :
        /\ (hist[g].starts = 1) <=> (g <= created)
        /\ hist[g].starts <= 1
        /\ hist[g].ends <= hist[g].starts
        /\ (interaction = g) => (hist[g].ends = 0)
        /\ (hist[g].starts = 1 /\ interaction # g) => (hist[g].ends = 1)

\* the continuation of a second end trigger on the only gesture so far has run
C2_Witness ==
    /\ created = 1
    /\ hist[1].ends = 1
    /\ task.type = "resolve"
    /\ trace = <<"endActionThen", "find">>
    /\ BagCardinality(pending) = 0

\* C3: changed is emitted at most once per gesture and never without end; the
\* continuation that ends a gesture emits it exactly when the final anchor of
\* the Interaction differs from its original anchor at that time.
C3_ChangedIffOrderChanged ==
    /\ [](\A g \in Gestures :
              hist[g].changed <= 1 /\ hist[g].changed <= hist[g].ends)
    /\ [][(task'.type = "resolve" /\ interaction # Null)
            => /\ hist'[interaction].ends = 1
               /\ hist'[interaction].changed =
                     (IF inter[interaction].before # inter[interaction].before0
                      THEN 1 ELSE 0)]_vars
    /\ [][\A g \in Gestures :
              hist'[g].changed # hist[g].changed
                  => (task'.type = "resolve" /\ interaction = g)]_vars

C3_Witness ==
    \E g, h \in Gestures :
        /\ hist[g].ends = 1 /\ hist[g].changed = 1
        /\ hist[h].ends = 1 /\ hist[h].changed = 0

\* C4: destroy() on a controller that holds an Interaction leaves no listener
\* on document.body / window and no delegated mousedown listener, and registers
\* an abort continuation; that gesture gets no second end, has its end as soon
\* as the reference is cleared, and until then the wide listeners stay off.
C4_DestroyEndsGesture ==
    /\ [](\A g \in Gestures : hist[g].destroyed =>
              /\ hist[g].ends <= 1
              /\ (interaction # g) => (hist[g].ends = 1)
              /\ (interaction = g) =>
                    /\ wide = {}
                    /\ \E p \in BagToSet(pending) :
                          p.of = g /\ p.kind = "abort")
    /\ [][(task'.type = "destroy" /\ interaction # Null)
            => /\ wide' = {}
               /\ mousedown' = {}
               /\ delegateHandler' = Null
               /\ hist'[interaction].destroyed
               /\ Has(trace', "abort")]_vars

C4_Witness ==
    \E g \in Gestures :
        /\ hist[g].destroyed
        /\ hist[g].ends = 1
        /\ wide = {}
        /\ mousedown = {}
        /\ BagCardinality(pending) = 0

\* C5: in every run that calls drop() or abort(), the four off() calls come
\* first and no wide listener is left; while a finalized Interaction is still
\* held no wide listener is attached, and no onMove / onScroll was ever
\* forwarded to an Interaction after its drop() / abort().
C5_DetachBeforeFinalize ==
    /\ [](\A g \in Gestures :
              /\ ~hist[g].late
              /\ (interaction = g /\ inter[g].calls # <<>>) => (wide = {}))
    /\ [][\A i \in DOMAIN trace' :
              trace'[i] \in {"drop", "abort"}
                  => (CountBefore(trace', i - 1, "off") = 4 /\ wide' = {})]_vars

C5_Witness ==
    \E g \in Gestures :
        /\ interaction = g
        /\ inter[g].calls = <<"drop">>
        /\ Has(trace, "drop")
        /\ BagCardinality(pending) > 0
        /\ wide = {}

\* C6: per gesture, listener detachment, finalize, re-query and emission come
\* in this order: a gesture's end is emitted only after its own Interaction was
\* finalized (which follows the detachment), every emission of a continuation
\* follows its re-query, and while a finalized Interaction is still held no
\* pickup is accepted.
C6_StrictSequencePerGesture ==
    /\ [][(interaction # Null /\ interaction' = Null)
            => (inter[interaction].calls # <<>> /\ wide = {})]_vars
    /\ [][/\ Precedes(trace', "find", "emit:end")
          /\ Precedes(trace', "find", "emit:changed")
          /\ Precedes(trace', "off", "drop")
          /\ Precedes(trace', "off", "abort")]_vars
    /\ [][(interaction # Null /\ inter[interaction].calls # <<>>)
            => (created' = created /\ interaction' \in {interaction, Null})]_vars

\* C7: a run that accepts a pickup emits exactly one start, and what the
\* subscribers receive is the dragged item node itself.
C7_StartPayloadIsItem ==
    Has(trace, "new") =>
        /\ Len(notes) = 1
        /\ notes[1].type = "start"
        /\ interaction # Null
        /\ notes[1].payload = Node(inter[interaction].item)

\* C8: at most one delegated mousedown listener is installed, it is the one
\* the controller holds the token of; init() leaves exactly one installed,
\* removing a previous one before it installs the new one, and destroy()
\* leaves none.
C8_OneDelegate ==
    /\ [](/\ Cardinality(mousedown) <= 1
          /\ mousedown = (IF delegateHandler = Null THEN {} ELSE {delegateHandler}))
    /\ [][(task'.type = "init")
            => /\ Cardinality(mousedown') = 1
               /\ (delegateHandler # Null)
                     => (/\ Has(trace', "off:mousedown")
                         /\ Precedes(trace', "off:mousedown", "delegate"))]_vars
    /\ [][(task'.type = "destroy")
            => (mousedown' = {} /\ delegateHandler' = Null)]_vars

C8_Witness ==
    /\ task.type = "init"
    /\ Has(trace, "off:mousedown")
    /\ Cardinality(mousedown) = 1
    /\ created > 0

\* C9: destroy() on an idle controller only removes the delegated mousedown
\* listener: no Interaction is created or finalized, nothing is emitted and the
\* listeners on document.body / window are as before.
C9_DestroyInIdle ==
    [][(task'.type = "destroy" /\ interaction = Null)
         => /\ UNCHANGED <<interaction, wide, order, inter, pending, hist,
                           created, error>>
            /\ notes' = <<>>
            /\ mousedown' = mousedown \ {delegateHandler}
            /\ delegateHandler' = Null
            /\ \A i \in DOMAIN trace' :
                  trace'[i] \in {"destroy", "onDragEnd", "off:mousedown"}]_vars

C9_Witness ==
    /\ task.type = "destroy"
    /\ trace = <<"destroy", "onDragEnd", "off:mousedown">>
    /\ interaction = Null
    /\ created > 0

\* C10: onDragMove, onScroll, onDragEnd and onMouseOut run on an idle
\* controller, and onMouseOut run with a relatedTarget other than the document
\* root in any state, change nothing: no Interaction call, no listener change,
\* no notification, no exception.
C10_IdleHandlersAreNoOps ==
    [][(\/ (/\ task'.type \in {"mousemove", "scroll", "mouseup", "mouseout"}
            /\ interaction = Null)
        \/ (task'.type = "mouseout" /\ task'.relatedTarget # HtmlNode))
         => /\ UNCHANGED ctrl
            /\ notes' = <<>>
            /\ \A i \in DOMAIN trace' :
                  trace'[i] \in {"onDragMove", "onScroll", "onDragEnd",
                                 "onMouseOut"}]_vars

C10_Witness ==
    /\ task.type = "mousemove"
    /\ trace = <<"onDragMove">>
    /\ interaction = Null
    /\ ~error

\* the end trigger that first finalized the Interaction g, "" if none yet
EndedBy(g) == IF inter[g].by = <<>> THEN "" ELSE inter[g].by[1]

\* C11: a gesture whose Interaction was aborted by the window mouseout, after
\* whatever moves, has the item order of its pickup back from then on, and the
\* continuation that ends it emits end and no changed.
C11_MouseOutRestoresOrder ==
    /\ [](\A g \in Gestures :
              EndedBy(g) = "mouseout"
                  => /\ order = inter[g].order0
                     /\ hist[g].ends = 0 /\ hist[g].changed = 0)
    /\ [][(interaction # Null /\ EndedBy(interaction) = "mouseout"
           /\ task'.type = "resolve")
            => /\ hist'[interaction].ends = 1
               /\ hist'[interaction].changed = 0
               /\ Len(notes') = 1 /\ notes'[1].type = "end"
               /\ order' = inter[interaction].order0]_vars

\* the mouseout has just aborted a gesture that had moved its item
C11_Witness ==
    /\ task.type = "mouseout"
    /\ Has(trace, "abort")
    /\ interaction # Null
    /\ inter[interaction].moved
    /\ inter[interaction].by = <<"mouseout">>
    /\ order = inter[interaction].order0

\* C12: subscribers called with end or changed find the Interaction reference
\* already cleared; a changed is the second notification of its run, right
\* after the end of that run, and no gesture has a changed without an end.
C12_ClearThenEndThenChanged ==
    /\ \A i \in DOMAIN notes :
          /\ notes[i].type \in {"end", "changed"} => notes[i].held = Null
          /\ notes[i].type = "end" => i = 1
          /\ notes[i].type = "changed" => (i = 2 /\ notes[1].type = "end")
    /\ Precedes(trace, "clear", "emit:end")
    /\ Precedes(trace, "emit:end", "emit:changed")
    /\ \A g \in Gestures : hist[g].changed <= hist[g].ends

C12_Witness ==
    /\ task.type = "resolve"
    /\ Len(notes) = 2
    /\ notes[2].type = "changed"
    /\ interaction = Null

\* the anchor the pointer at y selects for the item of the Interaction g
AnchorAt(g, y) ==
    LET others == Without(order, inter[g].item)
    IN  IF y >= Len(others) THEN Null ELSE others[y + 1]

\* the run of this step called onDragEnd without an event on a held Interaction
AbortTriggered ==
    /\ interaction # Null
    /\ \/ task'.type = "destroy"
       \/ task'.type = "init" /\ delegateHandler # Null
       \/ task'.type = "mouseout" /\ task'.relatedTarget = HtmlNode

\* C13: a release on a held Interaction calls drop(), once, with the
\* coordinates of the release (the item ends before the anchor they select,
\* and that is the result of the promise), and never abort(); a mouseout to
\* the document root and destroy() call abort(), once, and never drop().
C13_FinalizeByTrigger ==
    /\ [][(task'.type = "mouseup" /\ interaction # Null)
            => /\ ~Has(trace', "abort")
               /\ CountBefore(trace', Len(trace'), "drop") = 1
               /\ inter'[interaction].calls = Append(inter[interaction].calls, "drop")
               /\ inter'[interaction].before = AnchorAt(interaction, task'.y)
               /\ order' = insertBefore(order, inter[interaction].item,
                                        AnchorAt(interaction, task'.y))
               /\ pending' = pending (+) SetToBag({
                     [of |-> interaction, kind |-> "drop",
                      result |-> [item |-> inter[interaction].item,
                                  before |-> AnchorAt(interaction, task'.y)]]})]_vars
    /\ [][AbortTriggered
            => /\ ~Has(trace', "drop")
               /\ CountBefore(trace', Len(trace'), "abort") = 1
               /\ inter'[interaction].calls = Append(inter[interaction].calls, "abort")
               /\ \E p \in BagToSet(pending') :
                     p.of = interaction /\ p.kind = "abort"]_vars
    /\ [][task'.type \notin {"mouseup"} => ~Has(trace', "drop")]_vars
    /\ [][task'.type \notin {"destroy", "init", "mouseout"}
            => ~Has(trace', "abort")]_vars

\* a release has just dropped the item at the end of the list
C13_Witness ==
    /\ task.type = "mouseup"
    /\ task.y = NItems - 1
    /\ Has(trace, "drop")
    /\ interaction # Null
    /\ inter[interaction].calls = <<"drop">>
    /\ inter[interaction].before = Null
    /\ inter[interaction].before0 # Null

\* C14: once drop() or abort() was called on the Interaction of a gesture, the
\* controller gets back to Idle and the end of that gesture is emitted, given
\* that every finalize promise resolves.
C14_EndTriggerLeadsToIdle ==
    \A g \in Gestures :
        (inter[g].calls # <<>>)
            ~> (interaction = Null /\ inter[g].calls = <<>> /\ hist[g].ends = 1)

C14_Witness ==
    /\ task.type = "resolve"
    /\ Len(notes) = 1
    /\ notes[1].type = "end"
    /\ interaction = Null
    /\ BagCardinality(pending) = 0
    /\ \E g \in Gestures : hist[g].ends = 1 /\ ~hist[g].destroyed

\* C15: a run that accepts a pickup creates the Interaction, calls start() on
\* it, attaches the four wide listeners, emits start and suppresses the default
\* action, in this order; the start subscribers find the controller holding
\* the new, started Interaction with all four wide listeners attached.
C15_PickupOrder ==
    Has(trace, "new") =>
        /\ trace = <<"onInteractionStart", "new", "start()", "on", "on", "on",
                     "on", "emit:start", "preventDefault">>
        /\ Len(notes) = 1
        /\ notes[1].type = "start"
        /\ notes[1].held = interaction
        /\ notes[1].held # Null
        /\ notes[1].wide = WideListeners
        /\ wide = WideListeners
        /\ inter[interaction].dragging
        /\ inter[interaction].order0 = order

C15_Witness ==
    /\ task.type = "mousedown"
    /\ task.target \in Handles
    /\ Has(trace, "emit:start")
    /\ Len(notes) = 1
    /\ notes[1].wide = WideListeners
    /\ created = 2

\* the promise whose continuation the run of this step is
Resolved == CHOOSE p \in BagToSet(pending) : pending' = pending (-) SetToBag({p})

\* the run of this step emitted changed
EmitsChanged == task'.type = "resolve" /\ Has(trace', "emit:changed")

\* C16 (part): the items of a changed are the item order at the time its
\* continuation runs, and only calls on the Interaction change the item order.
ItemsAreLiveOrder ==
    /\ [][EmitsChanged
            => (notes'[2].payload.items = order /\ order' = order)]_vars
    /\ [][order' # order
            => \E i \in DOMAIN trace' :
                  trace'[i] \in {"onMove", "onScroll", "drop", "abort"}]_vars

\* C16: the items of a changed are the item order read once the finalize
\* promise of that gesture has resolved: the continuation that emits changed
\* for a gesture belongs to a promise of that gesture's finalized Interaction
\* and carries the order of that time; the controller never changes the order.
C16_ItemsReadAfterOwnFinalize ==
    /\ ItemsAreLiveOrder
    /\ [][EmitsChanged
            => /\ inter[interaction].calls # <<>>
               /\ Resolved.of = interaction]_vars

\* C17: whenever the controller is Idle none of the listeners on
\* document.body / window is attached.
C17_IdleHasNoWideListeners == (interaction = Null) => (wide = {})

\* C18: an Interaction gets at most one finalize call, drop() or abort(), in
\* its lifetime.
C18_AtMostOneFinalizeCall ==
    \A g \in Gestures : Len(inter[g].calls) <= 1

\* C19: a continuation acts only on the gesture whose drop() / abort() made
\* its promise: the Interaction it clears and emits end for is the one of its
\* promise, which was finalized, and the result it puts in changed is that
\* Interaction's item and final anchor.
C19_ContinuationActsOnOwnGesture ==
    /\ [][(task'.type = "resolve" /\ interaction # Null)
            => /\ Resolved.of = interaction
               /\ inter[interaction].calls # <<>>]_vars
    /\ [][EmitsChanged
            => notes'[2].payload.result =
                  [item |-> inter[interaction].item,
                   before |-> inter[interaction].before]]_vars

====
